---- MODULE Spec2Model ----
(***************************************************************************)
(* Model of the GitHub Issues Explorer extension:                          *)
(*   - GitHubIssue (src/src/GitHubIssue.ts 3-154): the issue node, its     *)
(*     checklist parser, its progress computation and checkbox toggling;   *)
(*   - GitHubIssuesProvider.handleCheckboxChange (src/src/extension.ts     *)
(*     162-190): the checkbox write-back;                                  *)
(*   - GitHubIssueService (src/src/GitHubIssue.ts 265-514): the cache      *)
(*     store, the stale-while-revalidate policy, fetches and               *)
(*     notifications.                                                      *)
(* Strings are sequences of one-character strings; time is counted in      *)
(* units of five minutes.                                                  *)
(***************************************************************************)
EXTENDS Integers, Sequences, FiniteSets, TLC

VARIABLES
    \* ---- the issue node (one top-level issue and its children) ----
    body,        \* parent.issue.body, a sequence of characters
    children,    \* parent.children, a sequence of node records
    progress,    \* parent.progress, a rational [num, den]
    hasBar,      \* parent.progressBar is defined
    handlers,    \* handleCheckboxChange invocations in flight
    last,        \* history: the operation that made the last step
    \* ---- the service ----
    octokit,     \* this.octokit !== null
    repoOk,      \* getGitHubRepoInfo resolves (workspace, origin remote, URL)
    now,         \* Date.now(), in minutes
    ticks,       \* how many times the clock has advanced
    store,       \* workspaceState under the cache key: the CachedIssues entry
    remote,      \* the repository's open and closed items on GitHub
    act,         \* where activate() is
    auth,        \* where initializeInBackground() is
    timer,       \* refreshInterval: when it fires next, whether it is cleared
    tasks,       \* the fetchAndCacheIssues invocations, in the order they began
    query,       \* the getCachedOrFetchIssues call in progress or the last one
    cache,       \* the clearCache call, and what loadCacheAndFetch returned
    log          \* what handleError and the rejections have reported

treeVars == <<body, children, progress, hasBar, handlers, last>>
envVars == <<octokit, repoOk>>
svcVars == <<now, ticks, store, remote, act, auth, timer, tasks, query, cache, log>>
vars == <<treeVars, envVars, svcVars>>

\* ------------------------------------------------------------------------
\* Characters and strings
\* ------------------------------------------------------------------------
NL == "\n"
SP == " "

\* \s of the regular expressions, over the characters used here
IsWs(c) == c \in {SP, NL}

\* issue.number of the top-level record the node is built from (an input)
ParentNumber == 7

\* ------------------------------------------------------------------------
\* Bounds and inputs
\* ------------------------------------------------------------------------
\* most lines a body is made of
MaxLines == 2
\* most checkbox change events (handleCheckboxChange invocations) in a behaviour
MaxHandlers == 2

\* "- [m] text" with the given spacing
ChecklistLine(indent, sp1, mark, sp2, text) ==
    indent \o <<"-">> \o sp1 \o <<"[", mark, "]">> \o sp2 \o text

\* the lines bodies are made of: checklist lines with equal texts, with a text
\* that is a prefix of another, with spacing other than "- [ ] text", and a
\* line that is no checklist line
Lines ==
    { ChecklistLine(<<>>, <<SP>>, " ", <<SP>>, <<"a">>),
      ChecklistLine(<<>>, <<SP>>, "x", <<SP>>, <<"a">>),
      ChecklistLine(<<>>, <<SP>>, " ", <<SP>>, <<"a", "b">>),
      ChecklistLine(<<>>, <<>>, " ", <<SP>>, <<"a">>),
      ChecklistLine(<<SP>>, <<SP>>, "x", <<SP, SP>>, <<"b">>),
      <<"a", SP, "b">> }

RECURSIVE JoinLines(_)
JoinLines(ls) ==
    IF Len(ls) = 0 THEN <<>>
    ELSE IF Len(ls) = 1 THEN ls[1]
    ELSE ls[1] \o <<NL>> \o JoinLines(Tail(ls))

Bodies ==
    { JoinLines(ls) : ls \in UNION { [1..n -> Lines] : n \in 0..MaxLines } }

\* ------------------------------------------------------------------------
\* GitHubIssue.parseCheckboxes: /^(\s*)-\s*\[([ x])\]\s*(.+)$/gm
\* ------------------------------------------------------------------------
\* first index >= i whose character is not whitespace (Len(s)+1 when none)
RECURSIVE SkipWs(_, _)
SkipWs(s, i) ==
    IF i > Len(s) THEN Len(s) + 1
    ELSE IF IsWs(s[i]) THEN SkipWs(s, i + 1) ELSE i

\* last index of the line that holds index i: "." does not match a newline
RECURSIVE LineEnd(_, _)
LineEnd(s, i) ==
    IF i >= Len(s) THEN Len(s)
    ELSE IF s[i + 1] = NL THEN i ELSE LineEnd(s, i + 1)

\* "^" under the m flag: the start of the input or just after a newline
AtLineStart(s, p) == p = 1 \/ (p > 1 /\ p <= Len(s) + 1 /\ s[p - 1] = NL)

\* where "\s*(.+)$" puts the start of the text, from index j (just after "]"):
\* "\s*" takes the longest run of whitespace that leaves ".+" a character
\* that is not a newline; 0 when there is none
TextStart(s, j) ==
    LET e == SkipWs(s, j)
    IN  IF e <= Len(s) THEN e
        ELSE LET c == { t \in j..Len(s) : s[t] # NL }
             IN  IF c = {} THEN 0 ELSE CHOOSE t \in c : \A u \in c : u <= t

\* the match of the pattern that starts at p, or ok = FALSE
MatchAt(s, p) ==
    LET i1 == SkipWs(s, p)
        i2 == SkipWs(s, i1 + 1)
        t  == TextStart(s, i2 + 3)
    IN  IF /\ AtLineStart(s, p)
           /\ i1 <= Len(s) /\ s[i1] = "-"
           /\ i2 + 2 <= Len(s)
           /\ s[i2] = "[" /\ s[i2 + 1] \in {" ", "x"} /\ s[i2 + 2] = "]"
           /\ t # 0
        THEN [ok |-> TRUE, checked |-> s[i2 + 1] = "x",
              text |-> SubSeq(s, t, LineEnd(s, t)), end |-> LineEnd(s, t) + 1]
        ELSE [ok |-> FALSE, checked |-> FALSE, text |-> <<>>, end |-> p]

\* checkboxRegex.exec in a loop: the matches from lastIndex p on, in order
RECURSIVE ExecAll(_, _)
ExecAll(s, p) ==
    IF p > Len(s) THEN <<>>
    ELSE LET m == MatchAt(s, p)
         IN  IF m.ok
             THEN <<[checked |-> m.checked, text |-> m.text]>> \o ExecAll(s, m.end)
             ELSE ExecAll(s, p + 1)

\* a child node built by parseCheckboxes (lines 86-102)
SubItem(index, m) ==
    [type |-> "issue", isCheckbox |-> TRUE, checked |-> m.checked,
     label |-> m.text, number |-> <<ParentNumber, index>>,
     progress |-> [num |-> 0, den |-> 1]]

parseCheckboxes(b) ==
    LET ms == ExecAll(b, 1)
    IN  [i \in 1..Len(ms) |-> SubItem(i, ms[i])]

\* ------------------------------------------------------------------------
\* GitHubIssue.calculateProgress / updateProgressBar
\* ------------------------------------------------------------------------
\* rationals as [num, den], den > 0
RatEq(p, q) == p.num * q.den = q.num * p.den

Count(cs, P(_)) == Cardinality({ i \in 1..Len(cs) : P(cs[i]) })

\* how many children calculateProgress takes as the checkboxes (line 110)
TotalCheckboxes(cs) == Len(cs)

\* this.progress of lines 110-112: (checked / total) * 100, or 0
ProgressOf(cs) ==
    LET total == TotalCheckboxes(cs)
        checkedCheckboxes == Count(cs, LAMBDA c : c.checked)
    IN  IF total > 0 THEN [num |-> 100 * checkedCheckboxes, den |-> total]
        ELSE [num |-> 0, den |-> 1]

\* the node made by updateProgressBar (lines 121-127)
ProgressBarNode(p) ==
    [type |-> "progressBar", isCheckbox |-> FALSE, checked |-> FALSE,
     label |-> <<"P", "r", "o", "g", "r", "e", "s", "s">>,
     number |-> <<ParentNumber, "progress">>, progress |-> p]

\* a variant that unshifts a new bar on every call
WithProgressBar_Always(cs, bar, p) == <<ProgressBarNode(p)>> \o cs

\* children after updateProgressBar: unshift a new bar, or update the bar
WithProgressBar(cs, bar, p) ==
    IF ~bar THEN <<ProgressBarNode(p)>> \o cs
    ELSE [i \in 1..Len(cs) |->
            IF cs[i].type = "progressBar" THEN [cs[i] EXCEPT !.progress = p] ELSE cs[i]]

\* calculateProgress (lines 109-116): the node's children, progress, progressBar
calculateProgress(cs, bar) ==
    LET p == ProgressOf(cs)
    IN  [children |-> WithProgressBar(cs, bar, p), progress |-> p, hasBar |-> TRUE]

\* the constructor, lines 41-52: parse, then calculateProgress when there are
\* children; a node without children keeps progress = 0 and no progress bar
Construct(b) ==
    LET cs == parseCheckboxes(b)
    IN  IF Len(cs) > 0 THEN calculateProgress(cs, FALSE)
        ELSE [children |-> <<>>, progress |-> [num |-> 0, den |-> 1],
              hasBar |-> FALSE]

\* ------------------------------------------------------------------------
\* handleCheckboxChange: the rewrite of the parent body (lines 168-171)
\* ------------------------------------------------------------------------
\* does needle occur in s at index i
OccursAt(s, needle, i) ==
    /\ i + Len(needle) - 1 <= Len(s)
    /\ \A k \in 1..Len(needle) : s[i + k - 1] = needle[k]

\* String.replace with a g-flagged pattern that matches needle literally
RECURSIVE ReplaceFrom(_, _, _, _)
ReplaceFrom(s, needle, repl, i) ==
    IF i > Len(s) THEN <<>>
    ELSE IF OccursAt(s, needle, i)
         THEN repl \o ReplaceFrom(s, needle, repl, i + Len(needle))
         ELSE <<s[i]>> \o ReplaceFrom(s, needle, repl, i + 1)

Mark(checked) == IF checked THEN "x" ELSE " "

\* the pattern's literal text: "- [" + (checked ? " " : "x") + "] " + label
Needle(checked, itemLabel) ==
    <<"-", SP, "[", Mark(~checked), "]", SP>> \o itemLabel

\* the replacement: "- [" + (checked ? "x" : " ") + "] " + label
Replacement(checked, itemLabel) ==
    <<"-", SP, "[", Mark(checked), "]", SP>> \o itemLabel

UpdatedBody(parentBody, checked, itemLabel) ==
    ReplaceFrom(parentBody, Needle(checked, itemLabel),
                Replacement(checked, itemLabel), 1)

\* ------------------------------------------------------------------------
\* The service: constants, data and bounds
\* ------------------------------------------------------------------------
\* cacheExpirationTime, 30 * 60 * 1000 ms, in minutes
CacheExpirationTime == 30
\* the age above which a served entry is refreshed, 5 * 60 * 1000 ms, in minutes
RefreshAfter == 5
\* the period of the background refresh, 30 * 60 * 1000 ms, in minutes
RefreshEvery == 30
\* per_page of listForRepo
PerPage == 100

\* the clock advances MaxTicks times at most, by one refresh period each time
MaxTicks == 1
\* most fetchAndCacheIssues invocations in a behaviour
MaxFetches == 2
\* most open items the remote repository holds
MaxOpen == 101

\* an item of the listing: pull requests carry the pull_request field
Item(n, st) == [number |-> n, state |-> st, pull_request |-> n % 3 = 0]

\* a repository with the given numbers of open and closed items
Repo(nOpen, nClosed) ==
    [open   |-> [i \in 1..nOpen |-> Item(i, "open")],
     closed |-> [i \in 1..nClosed |-> Item(1000 + i, "closed")]]

Empty == [issues |-> <<>>, pullRequests |-> <<>>]

\* workspaceState.get gives undefined
NoEntry == [present |-> FALSE, timestamp |-> 0, issues |-> <<>>, pullRequests |-> <<>>]

\* a CachedIssues value
Entry(ts, c) ==
    [present |-> TRUE, timestamp |-> ts, issues |-> c.issues,
     pullRequests |-> c.pullRequests]

Collections(e) == [issues |-> e.issues, pullRequests |-> e.pullRequests]

\* what an earlier session left in workspaceState: nothing, or an entry
\* written 5, 10 or 35 minutes before this session
StoredBefore ==
    LET old == [issues |-> <<Item(1, "open")>>, pullRequests |-> <<>>]
    IN  { NoEntry, Entry(0 - RefreshAfter, old), Entry(0 - 2 * RefreshAfter, old),
          Entry(0 - CacheExpirationTime - RefreshAfter, old) }

\* a fetchAndCacheIssues invocation
NewTask(origin) ==
    [origin |-> origin, pc |-> "repoInfo", data |-> Empty,
     ts |-> 0, result |-> Empty, fires |-> 0]

\* the time of something that has not happened
Never == 0 - 1000

\* a getCachedOrFetchIssues call; since is the time at which the clearCache
\* of the refresh command that led to the call had finished
NewQuery ==
    [pc |-> "idle", found |-> FALSE, age |-> 0, refreshes |-> 0, task |-> 0,
     result |-> Empty, raised |-> FALSE, since |-> Never]

ServiceAtRest ==
    /\ now = 0
    /\ ticks = 0
    /\ store = NoEntry
    /\ remote = Repo(0, 0)
    /\ act = "start"
    /\ auth = "none"
    /\ timer = [next |-> RefreshEvery, cleared |-> FALSE]
    /\ tasks = <<>>
    /\ query = NewQuery
    /\ cache = [clear |-> "idle", loaded |-> FALSE, result |-> Empty]
    /\ log = {}

\* ------------------------------------------------------------------------
\* The node: state and operations
\* ------------------------------------------------------------------------
\* the checked flags of the sub-items (the children that are not the bar)
SubItems(cs) == SelectSeq(cs, LAMBDA c : c.type # "progressBar")
Flags(cs) == [i \in 1..Len(SubItems(cs)) |-> SubItems(cs)[i].checked]
Labels(cs) == [i \in 1..Len(SubItems(cs)) |-> SubItems(cs)[i].label]
Bars(cs) == Count(cs, LAMBDA c : c.type = "progressBar")

\* the sub-items are what parsing the body gives
InSync(b, cs) ==
    LET re == parseCheckboxes(b)
    IN  /\ Labels(re) = Labels(cs)
        /\ Flags(re) = Flags(cs)

IdleHandler ==
    [pc |-> "idle", item |-> 0, checked |-> FALSE, updatedBody |-> <<>>]

\* history: the operation that made the last step, the child it was about,
\* the state it asked for, and whether it went through
Op(op, idx, target, ok) == [op |-> op, idx |-> idx, target |-> target, ok |-> ok]

TreeInit ==
    /\ body \in Bodies
    /\ LET n == Construct(body)
       IN  /\ children = n.children
           /\ progress = n.progress
           /\ hasBar = n.hasBar
    /\ handlers = [h \in 1..MaxHandlers |-> IdleHandler]
    /\ last = Op("construct", 0, FALSE, TRUE)
    /\ octokit \in BOOLEAN
    /\ repoOk \in BOOLEAN
    /\ ServiceAtRest

\* a variant without the isCheckbox test of line 146
ToggleCheckbox_Any(i) ==
    /\ i \in 1..Len(children)
    /\ LET cs == [children EXCEPT ![i].checked = ~children[i].checked]
           n  == calculateProgress(cs, hasBar)
       IN  /\ children' = n.children
           /\ progress' = n.progress
           /\ hasBar' = n.hasBar
    /\ last' = Op("toggle", 0, FALSE, children[i].isCheckbox)
    /\ UNCHANGED <<body, handlers, envVars, svcVars>>

\* GitHubIssue.toggleCheckbox on child i (lines 145-153); i = 0 is the
\* top-level node itself
ToggleCheckbox(i) ==
    /\ i \in 0..Len(children)
    /\ IF i > 0 /\ children[i].isCheckbox
       THEN LET cs == [children EXCEPT ![i].checked = ~children[i].checked]
                n  == calculateProgress(cs, hasBar)
            IN  /\ children' = n.children
                /\ progress' = n.progress
                /\ hasBar' = n.hasBar
                /\ last' = Op("toggle", 0, FALSE, TRUE)
       ELSE /\ UNCHANGED <<children, progress, hasBar>>
            /\ last' = Op("toggle", 0, FALSE, FALSE)
    /\ UNCHANGED <<body, handlers, envVars, svcVars>>

\* a call of the public calculateProgress on the top-level node
CalculateProgress ==
    /\ Len(children) > 0
    /\ LET n == calculateProgress(children, hasBar)
       IN  /\ children' = n.children
           /\ progress' = n.progress
           /\ hasBar' = n.hasBar
    /\ last' = Op("calc", 0, FALSE, TRUE)
    /\ UNCHANGED <<body, handlers, envVars, svcVars>>

\* the slot of the next invocation: invocations are numbered in the order
\* in which they start
FreeSlot(h) ==
    /\ handlers[h].pc = "idle"
    /\ \A g \in 1..(h - 1) : handlers[g].pc # "idle"

DoneHandler == [IdleHandler EXCEPT !.pc = "done"]

\* handleCheckboxChange for one (item, state) pair, up to its first await:
\* lines 164-174. An item that is no checkbox is skipped.
HandleStart(h, i, checked) ==
    /\ FreeSlot(h)
    /\ i \in 1..Len(children)
    /\ IF children[i].isCheckbox
       THEN /\ handlers' = [handlers EXCEPT ![h] =
                 [pc |-> "repoInfo", item |-> i, checked |-> checked,
                  updatedBody |-> UpdatedBody(body, checked, children[i].label)]]
            /\ UNCHANGED last
       ELSE UNCHANGED <<handlers, last>>
    /\ UNCHANGED <<body, children, progress, hasBar, envVars, svcVars>>

\* getGitHubRepoInfo resolves or throws (line 174); then updateIssueBody
\* throws when the client is not set (GitHubIssue.ts 457-459), else sends
HandleRepoInfo(h) ==
    /\ handlers[h].pc = "repoInfo"
    /\ IF repoOk /\ octokit
       THEN /\ handlers' = [handlers EXCEPT ![h].pc = "update"]
            /\ UNCHANGED last
       ELSE /\ handlers' = [handlers EXCEPT ![h] = DoneHandler]
            /\ last' = Op("change", handlers[h].item, handlers[h].checked, FALSE)
    /\ UNCHANGED <<body, children, progress, hasBar, envVars, svcVars>>

\* octokit.issues.update succeeded: lines 176-179
HandleUpdateOk(h) ==
    /\ handlers[h].pc = "update"
    /\ LET i  == handlers[h].item
           cs == [children EXCEPT ![i].checked = handlers[h].checked]
           n  == calculateProgress(cs, hasBar)
       IN  /\ body' = handlers[h].updatedBody
           /\ children' = n.children
           /\ progress' = n.progress
           /\ hasBar' = n.hasBar
    /\ handlers' = [handlers EXCEPT ![h] = DoneHandler]
    /\ last' = Op("change", handlers[h].item, handlers[h].checked, TRUE)
    /\ UNCHANGED <<envVars, svcVars>>

\* a variant that sets the item's flag before the write-back is known to
\* have succeeded
HandleUpdateFail_Optimistic(h) ==
    /\ handlers[h].pc = "update"
    /\ handlers' = [handlers EXCEPT ![h] = DoneHandler]
    /\ children' = [children EXCEPT ![handlers[h].item].checked = handlers[h].checked]
    /\ last' = Op("change", handlers[h].item, handlers[h].checked, FALSE)
    /\ UNCHANGED <<body, progress, hasBar, envVars, svcVars>>

\* octokit.issues.update failed: handleError and rethrow (GitHubIssue.ts 469-472)
HandleUpdateFail(h) ==
    /\ handlers[h].pc = "update"
    /\ handlers' = [handlers EXCEPT ![h] = DoneHandler]
    /\ last' = Op("change", handlers[h].item, handlers[h].checked, FALSE)
    /\ UNCHANGED <<body, children, progress, hasBar, envVars, svcVars>>

\* the node under its own operations
NodeNext ==
    \/ \E i \in 0..(MaxLines + 1) : ToggleCheckbox(i)
    \/ CalculateProgress

NodeSpec == TreeInit /\ [][NodeNext]_vars

\* the lines the parsed bodies are made of: those of Lines, a checklist line
\* whose text is left empty after a space, and one that ends after "]"
ParseLines ==
    Lines \cup { ChecklistLine(<<>>, <<SP>>, " ", <<SP>>, <<>>),
                 ChecklistLine(<<>>, <<SP>>, " ", <<>>, <<>>) }

ParseBodies ==
    { JoinLines(ls) : ls \in UNION { [1..n -> ParseLines] : n \in 0..MaxLines } }

\* an issue record has arrived, no node is built from it yet
ParseInit ==
    /\ body \in ParseBodies
    /\ children = <<>>
    /\ progress = [num |-> 0, den |-> 1]
    /\ hasBar = FALSE
    /\ handlers = [h \in 1..MaxHandlers |-> IdleHandler]
    /\ last = Op("record", 0, FALSE, TRUE)
    /\ octokit = FALSE
    /\ repoOk = TRUE
    /\ ServiceAtRest

\* new GitHubIssue(title, state, issue, 'issue') on the record (lines 8-52)
New ==
    /\ last.op = "record"
    /\ LET n == Construct(body)
       IN  /\ children' = n.children
           /\ progress' = n.progress
           /\ hasBar' = n.hasBar
    /\ last' = Op("construct", 0, FALSE, TRUE)
    /\ UNCHANGED <<body, handlers, envVars, svcVars>>

ParseSpec == ParseInit /\ [][New]_vars

\* the node under checkbox change events
ChangeNext ==
    \/ \E h \in 1..MaxHandlers, i \in 1..(MaxLines + 1), c \in BOOLEAN :
          HandleStart(h, i, c)
    \/ \E h \in 1..MaxHandlers : HandleRepoInfo(h)
    \/ \E h \in 1..MaxHandlers : HandleUpdateOk(h)
    \/ \E h \in 1..MaxHandlers : HandleUpdateFail(h)

ChangeSpec == TreeInit /\ [][ChangeNext]_vars

\* an issue whose body is a checklist of two items with the texts "a" and
\* "b", each written as "- [ ] text" or "- [x] text"
TwoItemBodies ==
    { JoinLines(<<ChecklistLine(<<>>, <<SP>>, m1, <<SP>>, <<"a">>),
                  ChecklistLine(<<>>, <<SP>>, m2, <<SP>>, <<"b">>)>>) :
        m1 \in {" ", "x"}, m2 \in {" ", "x"} }

TwoItemInit ==
    /\ body \in TwoItemBodies
    /\ LET n == Construct(body)
       IN  /\ children = n.children
           /\ progress = n.progress
           /\ hasBar = n.hasBar
    /\ handlers = [h \in 1..MaxHandlers |-> IdleHandler]
    /\ last = Op("construct", 0, FALSE, TRUE)
    /\ octokit \in BOOLEAN
    /\ repoOk \in BOOLEAN
    /\ ServiceAtRest

\* checkbox change events on the two-item checklist
TwoItemSpec == TwoItemInit /\ [][ChangeNext]_vars

\* the command github-issues.editIssue is invoked on the top-level node
\* (extension.ts 283-285): await getGitHubRepoInfo
EditStart(h) ==
    /\ FreeSlot(h)
    /\ handlers' = [handlers EXCEPT ![h] = [IdleHandler EXCEPT !.pc = "editInfo"]]
    /\ UNCHANGED <<body, children, progress, hasBar, last, envVars, svcVars>>

\* a variant that sends the request without looking at the client
EditRepoInfo_Unchecked(h) ==
    /\ handlers[h].pc = "editInfo"
    /\ IF repoOk
       THEN /\ handlers' = [handlers EXCEPT ![h].pc = "editUpdate"]
            /\ UNCHANGED last
       ELSE /\ handlers' = [handlers EXCEPT ![h] = DoneHandler]
            /\ last' = Op("edit", 0, FALSE, FALSE)
    /\ UNCHANGED <<body, children, progress, hasBar, envVars, svcVars>>

\* getGitHubRepoInfo resolves or throws; a title is entered (extension.ts
\* 285-288); updateIssue throws when the client is not set (GitHubIssue.ts
\* 437-440), else sends the request
EditRepoInfo(h) ==
    /\ handlers[h].pc = "editInfo"
    /\ IF repoOk /\ octokit
       THEN /\ handlers' = [handlers EXCEPT ![h].pc = "editUpdate"]
            /\ UNCHANGED last
       ELSE /\ handlers' = [handlers EXCEPT ![h] = DoneHandler]
            /\ last' = Op("edit", 0, FALSE, FALSE)
    /\ UNCHANGED <<body, children, progress, hasBar, envVars, svcVars>>

\* octokit.issues.update answers: the title is changed on the remote, or
\* handleError and rethrow (GitHubIssue.ts 442-453); the node is not touched
EditUpdate(h, ok) ==
    /\ handlers[h].pc = "editUpdate"
    /\ handlers' = [handlers EXCEPT ![h] = DoneHandler]
    /\ last' = Op("edit", 0, FALSE, ok)
    /\ UNCHANGED <<body, children, progress, hasBar, envVars, svcVars>>

\* the node under checkbox change events and title edits
WriteNext ==
    \/ \E h \in 1..MaxHandlers, i \in 1..(MaxLines + 1), c \in BOOLEAN :
          HandleStart(h, i, c)
    \/ \E h \in 1..MaxHandlers : HandleRepoInfo(h)
    \/ \E h \in 1..MaxHandlers : HandleUpdateOk(h)
    \/ \E h \in 1..MaxHandlers : HandleUpdateFail(h)
    \/ \E h \in 1..MaxHandlers : EditStart(h)
    \/ \E h \in 1..MaxHandlers : EditRepoInfo(h)
    \/ \E h \in 1..MaxHandlers, ok \in BOOLEAN : EditUpdate(h, ok)

WriteSpec == TreeInit /\ [][WriteNext]_vars

\* ------------------------------------------------------------------------
\* The service: GitHubIssueService and the calls activate() makes on it
\* ------------------------------------------------------------------------
nodeVars == <<body, children, progress, hasBar, handlers, last>>

\* the first page of a listing: listForRepo is called once, with per_page
FirstPage(items) ==
    SubSeq(items, 1, IF Len(items) < PerPage THEN Len(items) ELSE PerPage)

\* fetchItems(owner, repo, state): response.data (lines 369-375)
fetchItems(state) ==
    IF state = "open" THEN FirstPage(remote.open) ELSE FirstPage(remote.closed)

\* a variant that keeps the pull requests among the issues too
Partition_Unfiltered(openItems, closedItems) ==
    LET allItems == openItems \o closedItems
    IN  [issues       |-> allItems,
         pullRequests |-> SelectSeq(allItems, LAMBDA item : item.pull_request)]

\* lines 341-343: allItems, split on the pull_request field
Partition(openItems, closedItems) ==
    LET allItems == openItems \o closedItems
    IN  [issues       |-> SelectSeq(allItems, LAMBDA item : ~item.pull_request),
         pullRequests |-> SelectSeq(allItems, LAMBDA item : item.pull_request)]

\* a variant that lets entries expire after five minutes
IsFresh_Short(cacheAge) == cacheAge < RefreshAfter

\* line 316: cacheAge < cacheExpirationTime
IsFresh(cacheAge) == cacheAge < CacheExpirationTime

\* a variant that refreshes an entry of exactly five minutes too
ShouldRefresh_Inclusive(cacheAge) == cacheAge >= RefreshAfter

\* line 319: cacheAge > 5 * 60 * 1000
ShouldRefresh(cacheAge) == cacheAge > RefreshAfter

\* a variant that forgets the stored entry
getFallbackItems_Empty == Empty

\* getFallbackItems (lines 421-429), once its cache key is there
getFallbackItems == IF store.present THEN Collections(store) ELSE Empty

CanSpawn == Len(tasks) < MaxFetches

\* a caller that awaits task t gets what the task ends with
QueryAfter(t, rec) ==
    IF query.pc = "wait" /\ query.task = t
    THEN [query EXCEPT !.pc = "done", !.result = rec.result,
                       !.raised = (rec.pc = "raised")]
    ELSE query

\* initializeInBackground after its fetchAndCacheIssues (lines 301-304)
AuthAfter(t, rec) ==
    IF tasks[t].origin = "init"
    THEN IF rec.pc = "raised" THEN "failed" ELSE "done"
    ELSE auth

\* what a rejection of task t adds to the reports: initializeInBackground
\* catches it (line 303), getCachedOrFetchIssues passes it on to its caller,
\* nothing handles it for the timer and for the on-demand refresh
RaisedLog(t) ==
    CASE tasks[t].origin = "init"  -> {"fetchError", "authError"}
      [] tasks[t].origin = "query" -> {"fetchError", "queryRejected"}
      [] tasks[t].origin = "load"  -> {"fetchError", "loadError"}
      [] OTHER -> {"fetchError", "unhandledRejection"}

\* task t ends as rec: its callers go on in the same turn
Finish(t, rec) ==
    /\ tasks' = [tasks EXCEPT ![t] = rec]
    /\ query' = QueryAfter(t, rec)
    /\ auth' = AuthAfter(t, rec)

\* something is about to read the clock: line 312, line 346, or the interval
ClockWatched ==
    \/ query.pc = "key"
    \/ \E t \in 1..Len(tasks) : tasks[t].pc = "list"
    \/ ~timer.cleared

\* the clock advances by d minutes; a due timer fires first.
\* Only the advances that something can observe are taken.
Advance(d) ==
    /\ ticks < MaxTicks
    /\ timer.cleared \/ now < timer.next \/ ~CanSpawn
    /\ ClockWatched
    /\ now' = now + d
    /\ ticks' = ticks + 1
    /\ UNCHANGED <<store, remote, act, auth, timer, tasks, query, cache, log,
                   envVars, nodeVars>>

\* the clock advances by one period of the interval
Tick == Advance(RefreshEvery)

\* the clock advances by five minutes
TickShort == Advance(RefreshAfter)

\* activate() up to its first await: loadCacheAndFetch awaits getCachedIssues,
\* which awaits getCacheKey (extension.ts 216-236, GitHubIssue.ts 488, 476)
LoadStart ==
    /\ act = "start"
    /\ act' = "loading"
    /\ UNCHANGED <<now, ticks, store, remote, auth, timer, tasks, query, cache, log,
                   envVars, nodeVars>>

\* a variant that starts no refresh when the entry is at most five minutes old
LoadKey_WhenStale ==
    /\ act = "loading"
    /\ IF repoOk
       THEN /\ CanSpawn
            /\ tasks' = IF store.present /\ ~ShouldRefresh(now - store.timestamp)
                         THEN tasks
                         ELSE Append(tasks, NewTask("load"))
            /\ cache' = [cache EXCEPT !.loaded = TRUE,
                                      !.result = getFallbackItems]
            /\ act' = "active"
            /\ auth' = "session"
            /\ UNCHANGED log
       ELSE /\ act' = "failed"
            /\ log' = log \cup {"activateError"}
            /\ UNCHANGED <<tasks, cache, auth>>
    /\ UNCHANGED <<now, ticks, store, remote, timer, query, envVars, nodeVars>>

\* getCachedIssues resumes (lines 477-482); loadCacheAndFetch calls
\* fetchAndUpdateInBackground and returns (lines 491-493); activate goes on to
\* initialize(), which calls initializeInBackground and returns (281-283).
\* An unresolvable repository rejects loadCacheAndFetch: activate's catch.
LoadKey ==
    /\ act = "loading"
    /\ IF repoOk
       THEN /\ CanSpawn
            /\ tasks' = Append(tasks, NewTask("load"))
            /\ cache' = [cache EXCEPT !.loaded = TRUE,
                                      !.result = getFallbackItems]
            /\ act' = "active"
            /\ auth' = "session"
            /\ UNCHANGED log
       ELSE /\ act' = "failed"
            /\ log' = log \cup {"activateError"}
            /\ UNCHANGED <<tasks, cache, auth>>
    /\ UNCHANGED <<now, ticks, store, remote, timer, query, envVars, nodeVars>>

\* getSession resolves or fails (lines 287-288, 303)
AuthSession(ok) ==
    /\ auth = "session"
    /\ IF ok
       THEN /\ octokit' = TRUE
            /\ auth' = "user"
            /\ UNCHANGED log
       ELSE /\ auth' = "failed"
            /\ log' = log \cup {"authError"}
            /\ UNCHANGED octokit
    /\ UNCHANGED <<now, ticks, store, remote, act, timer, tasks, query, cache, repoOk,
                   nodeVars>>

\* users.getAuthenticated resolves or fails (lines 295-301, 303)
AuthUser(ok) ==
    /\ auth = "user"
    /\ IF ok
       THEN /\ CanSpawn
            /\ tasks' = Append(tasks, NewTask("init"))
            /\ auth' = "fetching"
            /\ UNCHANGED log
       ELSE /\ auth' = "failed"
            /\ log' = log \cup {"authError"}
            /\ UNCHANGED tasks
    /\ UNCHANGED <<now, ticks, store, remote, act, timer, query, cache, envVars, nodeVars>>

\* the interval of startBackgroundRefresh fires: refreshInBackground (405-413)
TimerFire ==
    /\ ~timer.cleared
    /\ now >= timer.next
    /\ CanSpawn
    /\ tasks' = Append(tasks, NewTask("timer"))
    /\ timer' = [timer EXCEPT !.next = timer.next + RefreshEvery]
    /\ UNCHANGED <<now, ticks, store, remote, act, auth, query, cache, log, envVars,
                   nodeVars>>

\* a variant that leaves the interval running
Dispose_KeepsInterval ==
    /\ act \in {"active", "failed"}
    /\ ~timer.cleared
    /\ act' = "disposed"
    /\ UNCHANGED <<now, ticks, store, remote, auth, timer, tasks, query, cache, log,
                   envVars, nodeVars>>

\* dispose (lines 431-435), from deactivate (extension.ts 304-311), once
\* activate has returned: the extension's views and commands call no more
Dispose ==
    /\ act \in {"active", "failed"}
    /\ ~timer.cleared
    /\ timer' = [timer EXCEPT !.cleared = TRUE]
    /\ act' = "disposed"
    /\ UNCHANGED <<now, ticks, store, remote, auth, tasks, query, cache, log,
                   envVars, nodeVars>>

\* getCachedOrFetchIssues is called (from getChildren): await getCacheKey
QueryStart ==
    /\ act \in {"loading", "active", "failed"}
    /\ query.pc \in {"idle", "done"}
    /\ query' = [NewQuery EXCEPT !.pc = "key"]
    /\ UNCHANGED <<now, ticks, store, remote, act, auth, timer, tasks, cache, log,
                   envVars, nodeVars>>

\* a variant that goes on to fetch without looking at the client
QueryKey_Fetches ==
    /\ query.pc = "key"
    /\ LET cacheAge == now - store.timestamp
           q == [query EXCEPT !.pc = "done", !.found = store.present,
                              !.age = IF store.present THEN cacheAge ELSE 0]
       IN  IF ~repoOk
           THEN /\ query' = [query EXCEPT !.pc = "done", !.raised = TRUE]
                /\ log' = log \cup {"queryRejected"}
                /\ UNCHANGED tasks
           ELSE IF store.present /\ IsFresh(cacheAge)
           THEN /\ query' = [q EXCEPT !.result = Collections(store),
                                      !.refreshes =
                                          IF ShouldRefresh(cacheAge) THEN 1 ELSE 0]
                /\ IF ShouldRefresh(cacheAge)
                   THEN /\ CanSpawn
                        /\ tasks' = Append(tasks, NewTask("refresh"))
                   ELSE UNCHANGED tasks
                /\ UNCHANGED log
           ELSE /\ CanSpawn
                /\ tasks' = Append(tasks, NewTask("query"))
                /\ query' = [q EXCEPT !.pc = "wait", !.task = Len(tasks) + 1]
                /\ UNCHANGED log
    /\ UNCHANGED <<now, ticks, store, remote, act, auth, timer, cache, envVars, nodeVars>>

\* getCachedOrFetchIssues from line 309 on
QueryKey ==
    /\ query.pc = "key"
    /\ LET cacheAge == now - store.timestamp
           q == [query EXCEPT !.pc = "done", !.found = store.present,
                              !.age = IF store.present THEN cacheAge ELSE 0]
       IN  IF ~repoOk
           THEN /\ query' = [query EXCEPT !.pc = "done", !.raised = TRUE]
                /\ log' = log \cup {"queryRejected"}
                /\ UNCHANGED tasks
           ELSE IF store.present /\ IsFresh(cacheAge)
           THEN /\ query' = [q EXCEPT !.result = Collections(store),
                                      !.refreshes =
                                          IF ShouldRefresh(cacheAge) THEN 1 ELSE 0]
                /\ IF ShouldRefresh(cacheAge)
                   THEN /\ CanSpawn
                        /\ tasks' = Append(tasks, NewTask("refresh"))
                   ELSE UNCHANGED tasks
                /\ UNCHANGED log
           ELSE IF ~octokit
           THEN /\ query' = [q EXCEPT !.result = Empty]
                /\ UNCHANGED <<tasks, log>>
           ELSE /\ CanSpawn
                /\ tasks' = Append(tasks, NewTask("query"))
                /\ query' = [q EXCEPT !.pc = "wait", !.task = Len(tasks) + 1]
                /\ UNCHANGED log
    /\ UNCHANGED <<now, ticks, store, remote, act, auth, timer, cache, envVars, nodeVars>>

\* clearCache is called (the refresh command): await getCacheKey
ClearStart ==
    /\ act = "active"
    /\ cache.clear = "idle"
    /\ cache' = [cache EXCEPT !.clear = "key"]
    /\ UNCHANGED <<now, ticks, store, remote, act, auth, timer, tasks, query, log,
                   envVars, nodeVars>>

\* clearCache from line 401 on
ClearKey ==
    /\ cache.clear = "key"
    /\ cache' = [cache EXCEPT !.clear = "idle"]
    /\ IF repoOk
       THEN /\ store' = NoEntry
            /\ UNCHANGED log
       ELSE /\ log' = log \cup {"clearRejected"}
            /\ UNCHANGED store
    /\ UNCHANGED <<now, ticks, remote, act, auth, timer, tasks, query, envVars, nodeVars>>

\* the refresh command (extension.ts 250-254): its clearCache goes on from
\* line 401, then refresh() makes the view ask for its children, which calls
\* getCachedOrFetchIssues (extension.ts 78, 89) up to its first await
RefreshCleared ==
    /\ cache.clear = "key"
    /\ repoOk
    /\ query.pc \in {"idle", "done"}
    /\ cache' = [cache EXCEPT !.clear = "idle"]
    /\ store' = NoEntry
    /\ query' = [NewQuery EXCEPT !.pc = "key", !.since = now]
    /\ UNCHANGED <<now, ticks, remote, act, auth, timer, tasks, log, envVars, nodeVars>>

\* fetchAndCacheIssues, task t: getGitHubRepoInfo resolves or throws (337);
\* fetchItems throws when the client is not set (366-368), else sends the
\* request for the open items. A throw goes to the catch (360-361), whose
\* getFallbackItems awaits getCacheKey, which throws again when the
\* repository is unresolvable.
TaskRepoInfo(t) ==
    /\ tasks[t].pc = "repoInfo"
    /\ IF ~repoOk
       THEN /\ Finish(t, [tasks[t] EXCEPT !.pc = "raised"])
            /\ log' = log \cup RaisedLog(t)
       ELSE IF ~octokit
       THEN /\ tasks' = [tasks EXCEPT ![t].pc = "fallback"]
            /\ log' = log \cup {"fetchError"}
            /\ UNCHANGED <<query, auth>>
       ELSE /\ tasks' = [tasks EXCEPT ![t].pc = "list"]
            /\ UNCHANGED <<query, auth, log>>
    /\ UNCHANGED <<now, ticks, store, remote, act, timer, cache, envVars, nodeVars>>

\* the two listings answer, or one of them fails (lines 338-349): nothing
\* else reads what the first one brought, so they are taken in one step
TaskListed(t, outcome) ==
    /\ tasks[t].pc = "list"
    /\ IF outcome = "ok"
       THEN /\ tasks' = [tasks EXCEPT
                 ![t].pc = "key",
                 ![t].data = Partition(fetchItems("open"), fetchItems("closed")),
                 ![t].ts = now]
            /\ UNCHANGED log
       ELSE /\ tasks' = [tasks EXCEPT ![t].pc = "fallback"]
            /\ log' = log \cup {"fetchError"}
    /\ UNCHANGED <<now, ticks, store, remote, act, auth, timer, query, cache,
                   envVars, nodeVars>>

\* a variant in which a successful fetch fires nothing
FiresOnSuccess_Silent(origin) == 0

\* how many times the end of task t fires onDataUpdated: line 356 on success,
\* and line 500 in fetchAndUpdateInBackground, which fires what it was given
FiresOnSuccess(origin) == IF origin = "load" THEN 2 ELSE 1

FiresOnFallback(origin) == IF origin = "load" THEN 1 ELSE 0

\* getCacheKey resolves and workspaceState.update stores the entry; then the
\* event is fired and the collections are returned (lines 351-358)
TaskStored(t) ==
    /\ tasks[t].pc = "key"
    /\ store' = Entry(tasks[t].ts, tasks[t].data)
    /\ Finish(t, [tasks[t] EXCEPT !.pc = "done",
                                  !.result = tasks[t].data,
                                  !.fires = FiresOnSuccess(tasks[t].origin)])
    /\ UNCHANGED <<now, ticks, remote, act, timer, cache, log, envVars, nodeVars>>

\* a variant in which a failed fetch writes an entry without items
TaskFallback_Stores(t) ==
    /\ tasks[t].pc = "fallback"
    /\ store' = Entry(now, Empty)
    /\ Finish(t, [tasks[t] EXCEPT !.pc = "failed",
                                  !.result = getFallbackItems,
                                  !.fires = FiresOnFallback(tasks[t].origin)])
    /\ UNCHANGED <<now, ticks, remote, act, timer, cache, log, envVars, nodeVars>>

\* getFallbackItems resumes and returns (lines 423-428)
TaskFallback(t) ==
    /\ tasks[t].pc = "fallback"
    /\ Finish(t, [tasks[t] EXCEPT !.pc = "failed",
                                  !.result = getFallbackItems,
                                  !.fires = FiresOnFallback(tasks[t].origin)])
    /\ UNCHANGED <<now, ticks, store, remote, act, timer, cache, log, envVars, nodeVars>>

\* a session that finds one of the given entries and one of the given
\* repositories: the service is constructed, nothing has been called yet
Session(stores, repos, resolvable) ==
    /\ body = <<>>
    /\ children = <<>>
    /\ progress = [num |-> 0, den |-> 1]
    /\ hasBar = FALSE
    /\ handlers = [h \in 1..MaxHandlers |-> IdleHandler]
    /\ last = Op("construct", 0, FALSE, TRUE)
    /\ octokit = FALSE
    /\ repoOk \in resolvable
    /\ now = 0
    /\ ticks = 0
    /\ store \in stores
    /\ remote \in repos
    /\ act = "start"
    /\ auth = "none"
    /\ timer = [next |-> RefreshEvery, cleared |-> FALSE]
    /\ tasks = <<>>
    /\ query = NewQuery
    /\ cache = [clear |-> "idle", loaded |-> FALSE, result |-> Empty]
    /\ log = {}

SvcInit == Session(StoredBefore, {Repo(3, 1)}, BOOLEAN)

\* a first session on a repository with more open items than one page holds
PageInit == Session({NoEntry}, {Repo(MaxOpen, 1)}, {TRUE})

SvcNext ==
    \/ Tick
    \/ LoadStart
    \/ LoadKey
    \/ \E ok \in BOOLEAN : AuthSession(ok)
    \/ \E ok \in BOOLEAN : AuthUser(ok)
    \/ TimerFire
    \/ Dispose
    \/ QueryStart
    \/ QueryKey
    \/ ClearStart
    \/ ClearKey
    \/ \E t \in 1..MaxFetches : t <= Len(tasks) /\ TaskRepoInfo(t)
    \/ \E t \in 1..MaxFetches, o \in {"ok", "openFails", "closedFails"} :
          t <= Len(tasks) /\ TaskListed(t, o)
    \/ \E t \in 1..MaxFetches : t <= Len(tasks) /\ TaskStored(t)
    \/ \E t \in 1..MaxFetches : t <= Len(tasks) /\ TaskFallback(t)

SvcSpec == SvcInit /\ [][SvcNext]_vars

PageSpec == PageInit /\ [][SvcNext]_vars

\* a session in which the cache is cleared by the refresh command only, and
\* the clock is also read five minutes apart
ClearInit ==
    Session(StoredBefore, {Repo(3, 1)}, {TRUE})

ClearNext ==
    \/ Tick
    \/ TickShort
    \/ LoadStart
    \/ LoadKey
    \/ \E ok \in BOOLEAN : AuthSession(ok)
    \/ \E ok \in BOOLEAN : AuthUser(ok)
    \/ TimerFire
    \/ Dispose
    \/ QueryStart
    \/ QueryKey
    \/ ClearStart
    \/ RefreshCleared
    \/ \E t \in 1..MaxFetches : t <= Len(tasks) /\ TaskRepoInfo(t)
    \/ \E t \in 1..MaxFetches, o \in {"ok", "openFails", "closedFails"} :
          t <= Len(tasks) /\ TaskListed(t, o)
    \/ \E t \in 1..MaxFetches : t <= Len(tasks) /\ TaskStored(t)
    \/ \E t \in 1..MaxFetches : t <= Len(tasks) /\ TaskFallback(t)

ClearSpec == ClearInit /\ [][ClearNext]_vars

\* a session in which the consumer makes no call after activation: the
\* service goes on by itself (authentication, fetches, the interval)
AloneNext ==
    \/ Tick
    \/ LoadStart
    \/ LoadKey
    \/ \E ok \in BOOLEAN : AuthSession(ok)
    \/ \E ok \in BOOLEAN : AuthUser(ok)
    \/ TimerFire
    \/ Dispose
    \/ \E t \in 1..MaxFetches : t <= Len(tasks) /\ TaskRepoInfo(t)
    \/ \E t \in 1..MaxFetches, o \in {"ok", "openFails", "closedFails"} :
          t <= Len(tasks) /\ TaskListed(t, o)
    \/ \E t \in 1..MaxFetches : t <= Len(tasks) /\ TaskStored(t)
    \/ \E t \in 1..MaxFetches : t <= Len(tasks) /\ TaskFallback(t)

\* every await of a fetch is answered: getRemotes and workspaceState settle,
\* and a listing request ends with a response or with an error
FetchesGoOn ==
    \A t \in 1..MaxFetches :
        /\ WF_vars(t <= Len(tasks) /\ TaskRepoInfo(t))
        /\ WF_vars(\E o \in {"ok", "openFails", "closedFails"} :
                      t <= Len(tasks) /\ TaskListed(t, o))
        /\ WF_vars(t <= Len(tasks) /\ TaskStored(t))
        /\ WF_vars(t <= Len(tasks) /\ TaskFallback(t))

AloneSpec == SvcInit /\ [][AloneNext]_vars /\ FetchesGoOn

\* ------------------------------------------------------------------------
\* Properties of the node
\* ------------------------------------------------------------------------
CheckedSubItems(cs) == Count(SubItems(cs), LAMBDA c : c.checked)

\* progress = 100 * checked sub-items / sub-items
ProgressIsRatio(p, cs) ==
    p.num * Len(SubItems(cs)) = 100 * CheckedSubItems(cs) * p.den

\* C1: after a toggle of a sub-item (toggleCheckbox, or a successful
\* handleCheckboxChange) the parent's progress is 100 * (checked sub-items) /
\* (sub-items), the progress node not counted among the sub-items.
C1_ProgressAfterToggle ==
    (last.op \in {"toggle", "change"} /\ last.ok /\ Len(SubItems(children)) > 0)
        => ProgressIsRatio(progress, children)

\* C2: calculateProgress is idempotent: on a node with sub-items whose progress
\* has been computed and whose sub-items have not changed since, another call
\* leaves the progress value as it is, and the node has exactly one progress
\* child.
C2_CalculateProgressIdempotent ==
    [][(hasBar /\ CalculateProgress)
          => (RatEq(progress', progress) /\ Bars(children') = 1)]_vars

\* the case of C3 for the invocation h that is about to finish: the sub-items
\* are those parsed from the body, the rewritten body was made from this body,
\* and the event asks for the opposite of the item's state
RoundTripCase(h) ==
    /\ InSync(body, children)
    /\ handlers[h].updatedBody =
          UpdatedBody(body, handlers[h].checked, children[handlers[h].item].label)
    /\ handlers[h].checked # children[handlers[h].item].checked

\* C3: a successful handleCheckboxChange that sets an item to the opposite
\* state rewrites the parent body so that parsing the rewritten body gives
\* the new checked state for that item and the previous one for every other.
C3_ToggleRoundTrip ==
    [][\A h \in 1..MaxHandlers :
          (HandleUpdateOk(h) /\ RoundTripCase(h))
             => Flags(parseCheckboxes(body')) =
                   [Flags(children) EXCEPT
                       ![children[handlers[h].item].number[2]] = handlers[h].checked]]_vars

\* ------------------------------------------------------------------------
\* Properties of the service
\* ------------------------------------------------------------------------
\* getCachedOrFetchIssues reads an entry of the given age (line 309-312)
ReadsEntryAged(P(_)) ==
    /\ QueryKey
    /\ repoOk
    /\ store.present
    /\ P(now - store.timestamp)

\* the call returns the entry it read, in the step that read it
ServesEntry ==
    /\ query'.pc = "done"
    /\ ~query'.raised
    /\ query'.result = Collections(store)

StartsOneRefresh == tasks' = Append(tasks, NewTask("refresh"))
StartsNoFetch == tasks' = tasks

\* C4 as stated: an entry written at T and read by getCachedOrFetchIssues at
\* T + 10 minutes is returned to the caller, and the call starts no refresh.
C4_ServedWithoutRefresh ==
    [][ReadsEntryAged(LAMBDA a : a = 2 * RefreshAfter)
          => (ServesEntry /\ StartsNoFetch)]_vars

\* C4, amended: an entry written at T and read by getCachedOrFetchIssues at
\* T + 10 minutes is returned to the caller, and the call starts exactly one
\* background refresh.
C4_ServedWithRefresh ==
    [][ReadsEntryAged(LAMBDA a : a = 2 * RefreshAfter)
          => (ServesEntry /\ StartsOneRefresh)]_vars

\* a call has returned a ten-minute-old entry and started a refresh
C4_Witness ==
    /\ query.pc = "done"
    /\ query.found
    /\ query.age = 2 * RefreshAfter
    /\ query.refreshes = 1
    /\ query.result # Empty
    /\ \E t \in 1..Len(tasks) : tasks[t].origin = "refresh"

\* C5: when getCachedOrFetchIssues finds an entry younger than 30 minutes it
\* returns that entry's collections in the same step (it waits for no fetch),
\* and it starts a background refresh if and only if the entry is older than
\* 5 minutes; when it starts one it starts exactly one.
C5_FreshEntryServed ==
    [][ReadsEntryAged(LAMBDA a : a < CacheExpirationTime)
          => /\ ServesEntry
             /\ IF now - store.timestamp > RefreshAfter
                THEN StartsOneRefresh
                ELSE StartsNoFetch]_vars

\* a call has served an entry not older than five minutes without a refresh,
\* in a behaviour in which an earlier call started one that wrote this entry
C5_Witness ==
    /\ query.pc = "done"
    /\ query.found
    /\ query.age <= RefreshAfter
    /\ query.refreshes = 0
    /\ query.result # Empty
    /\ \E t \in 1..Len(tasks) :
          tasks[t].origin = "refresh" /\ tasks[t].pc = "done"

\* C6: there is no hard expiry: a getCachedOrFetchIssues call that found a
\* (non-empty) entry older than 30 minutes returns that entry's collections
\* or those of a fetch it performed, never an empty result, authenticated or
\* not, the fetch successful or not.
C6_NoHardExpiry ==
    (query.pc = "done" /\ query.found /\ query.age > CacheExpirationTime)
        => (~query.raised /\ query.result # Empty)

\* C7: subscribers of onDataUpdated get at most one notification for a
\* completed refresh, whichever path started it.
C7_AtMostOneNotification ==
    \A t \in 1..Len(tasks) : tasks[t].fires <= 1

\* C8: every onDataUpdated notification is caused by a successful fetch and
\* carries the collections that this fetch wrote; a failed fetch emits none.
C8_NotificationOnlyOnSuccess ==
    \A t \in 1..Len(tasks) :
        tasks[t].fires > 0
            => (tasks[t].pc = "done" /\ tasks[t].result = tasks[t].data)

\* what a fetchAndCacheIssues invocation that met a failure returns
LastStored == IF store.present THEN Collections(store) ELSE Empty

\* C9: a listing failure in fetchAndCacheIssues does not raise to the caller:
\* the error is reported, and the invocation returns the collections of the
\* entry stored at that time, however old, or empty collections when none is
\* stored; a caller that awaits it gets these collections.
C9_ListingFailureFallsBack ==
    [][\A t \in 1..Len(tasks) :
          /\ (\E o \in {"openFails", "closedFails"} : TaskListed(t, o))
                => (tasks'[t].pc = "fallback" /\ "fetchError" \in log')
          /\ TaskFallback(t)
                => /\ tasks'[t].pc = "failed"
                   /\ tasks'[t].result = LastStored
                   /\ "fetchError" \in log'
                   /\ (query.pc = "wait" /\ query.task = t)
                         => (query'.pc = "done" /\ ~query'.raised
                             /\ query'.result = LastStored)]_vars

\* the synchronous fetch of a call that found no entry failed on a listing,
\* and the call returned empty collections
C9_Witness ==
    /\ query.pc = "done"
    /\ ~query.found
    /\ ~query.raised
    /\ query.task > 0
    /\ tasks[query.task].pc = "failed"
    /\ query.result = Empty
    /\ "fetchError" \in log

\* C10: after a successful fetch the stored entry holds every open and every
\* closed item of the remote repository, also when one state has more items
\* than one page of 100.
C10_EntryHoldsAllItems ==
    store.present
        => LET stored == store.issues \o store.pullRequests
               listed == remote.open \o remote.closed
           IN  \A i \in 1..Len(listed) :
                   \E j \in 1..Len(stored) : stored[j] = listed[i]

\* the getCachedOrFetchIssues call of a refresh command returns, the service
\* authenticated, and the fetch it made, if it made one, successful
RefreshedCallReturns ==
    /\ query.pc # "done"
    /\ query'.pc = "done"
    /\ query'.since # Never
    /\ octokit
    /\ query'.task > 0 => tasks'[query'.task].pc = "done"

\* C11: with the service authenticated and the remote reachable, clearCache()
\* followed at once by getCachedOrFetchIssues() leaves the store holding an
\* entry whose timestamp is not before the time of the clear, and the call
\* returns that entry's freshly fetched collections, in every interleaving,
\* a background refresh started before the clear included.
C11_FreshAfterClear ==
    [][RefreshedCallReturns
          => /\ store'.present
             /\ store'.timestamp >= query'.since
             /\ ~query'.raised
             /\ query'.result = Collections(store')]_vars

\* C12: in every interleaving of overlapping fetches the stored entry is that
\* of the most recently completed fetch: a put never replaces the stored
\* entry with one whose data was read (and whose timestamp was taken)
\* earlier than those of the entry it replaces.
C12_PutNeverGoesBack ==
    [][\A t \in 1..Len(tasks) :
          (TaskStored(t) /\ store.present)
             => store'.timestamp >= store.timestamp]_vars

\* ------------------------------------------------------------------------
\* Properties of the checkbox change handler
\* ------------------------------------------------------------------------
\* invocation h of handleCheckboxChange ends in this step without a
\* successful write-back
EndsWithoutWriteBack(h) ==
    /\ handlers[h].pc \in {"repoInfo", "update"}
    /\ handlers'[h].pc = "done"
    /\ ~HandleUpdateOk(h)

\* C13: in handleCheckboxChange the checked flag of the item, the parent's
\* body and the parent's progress change only in the step in which the remote
\* write-back has succeeded; when the write-back fails (or cannot be made) the
\* error is raised to the caller and the three are left as they are.
C13_ChangedOnlyAfterWriteBack ==
    [][/\ (<<body, children, progress>>' # <<body, children, progress>>)
            => \E h \in 1..MaxHandlers : HandleUpdateOk(h)
       /\ \A h \in 1..MaxHandlers :
             EndsWithoutWriteBack(h)
                => /\ last' = Op("change", handlers[h].item, handlers[h].checked, FALSE)
                   /\ UNCHANGED <<body, children, progress>>]_vars

\* a write-back was sent (client set, repository resolved) and failed: the
\* item still has the state opposite to the one the event asked for
C13_Witness ==
    /\ last.op = "change"
    /\ ~last.ok
    /\ octokit
    /\ repoOk
    /\ children[last.idx].checked # last.target
    /\ InSync(body, children)

\* ------------------------------------------------------------------------
\* Properties of the service, continued
\* ------------------------------------------------------------------------
\* loadCacheAndFetch returns what is stored and has started one refresh,
\* which has made no remote call yet
LoadReturnsStored ==
    /\ act' = "active"
    /\ cache'.loaded
    /\ cache'.result = LastStored
    /\ Len(tasks') = Len(tasks) + 1
    /\ tasks'[Len(tasks')].origin = "load"
    /\ tasks'[Len(tasks')].pc = "repoInfo"
    /\ \A t \in 1..Len(tasks) : tasks'[t] = tasks[t]

\* C14: loadCacheAndFetch returns the collections of the stored entry (empty
\* ones when none is stored) without waiting for a remote call, and starts
\* exactly one asynchronous refresh, whatever the age of the entry. (The
\* store is looked up under the repository's key: what the operations do
\* when the repository cannot be resolved is the matter of C17.)
C14_LoadReturnsAndRefreshes ==
    [][(LoadKey /\ repoOk) => LoadReturnsStored]_vars

\* loadCacheAndFetch has returned a 35-minute-old entry's collections while
\* the refresh it started has not made its first remote call
C14_Witness ==
    /\ cache.loaded
    /\ cache.result # Empty
    /\ store.present
    /\ now - store.timestamp > CacheExpirationTime
    /\ Len(tasks) = 1
    /\ tasks[1].origin = "load"
    /\ tasks[1].pc = "repoInfo"

\* C15: when no entry is stored and authentication has not completed,
\* getCachedOrFetchIssues returns empty collections in the step that looks
\* the store up: it starts no fetch and does not wait for authentication;
\* and initialize() returns to activate while authentication is in progress.
C15_EmptyBeforeAuthentication ==
    [][/\ (QueryKey /\ repoOk /\ ~store.present /\ ~octokit)
            => /\ query'.pc = "done"
               /\ ~query'.raised
               /\ query'.result = Empty
               /\ tasks' = tasks
       /\ (LoadKey /\ repoOk)
            => (act' = "active" /\ auth' = "session" /\ ~octokit')]_vars

\* a call has returned empty collections, no entry stored, while activate has
\* returned and the session request is still pending
C15_Witness ==
    /\ query.pc = "done"
    /\ ~query.found
    /\ ~query.raised
    /\ query.task = 0
    /\ query.result = Empty
    /\ ~store.present
    /\ ~octokit
    /\ act = "active"
    /\ auth = "session"

\* ------------------------------------------------------------------------
\* Properties of the write paths
\* ------------------------------------------------------------------------
\* C16: updateIssue and updateIssueBody, called before authentication has
\* completed, raise to the caller (the client is not initialized): no request
\* is sent, and the cache store and the in-memory node stay as they are.
C16_WritesNeedClient ==
    [][\A h \in 1..MaxHandlers :
          ((HandleRepoInfo(h) \/ EditRepoInfo(h)) /\ repoOk /\ ~octokit)
             => /\ handlers'[h].pc = "done"
                /\ last'.op \in {"change", "edit"}
                /\ ~last'.ok
                /\ UNCHANGED <<body, children, progress, hasBar, store>>]_vars

\* a title edit was refused for want of a client
C16_Witness ==
    /\ last.op = "edit"
    /\ ~last.ok
    /\ repoOk
    /\ ~octokit
    /\ \E h \in 1..MaxHandlers : handlers[h].pc = "done"

\* ------------------------------------------------------------------------
\* Properties of the service: failures, parsing, progress
\* ------------------------------------------------------------------------
\* C17: when authentication fails or the repository cannot be resolved, every
\* operation of the service that meets the failure ends by reporting it, and
\* none ends by an exception that nothing handles.
C17_NoUnhandledException ==
    "unhandledRejection" \notin log

\* the lines of a body: the pieces between its newlines
RECURSIVE SplitLines(_, _)
SplitLines(b, line) ==
    IF Len(b) = 0 THEN <<line>>
    ELSE IF Head(b) = NL THEN <<line>> \o SplitLines(Tail(b), <<>>)
    ELSE SplitLines(Tail(b), Append(line, Head(b)))

\* the matches of the checklist pattern on the lines, taken one line at a
\* time, in the order of the lines
RECURSIVE LineMatches(_)
LineMatches(ls) ==
    IF Len(ls) = 0 THEN <<>>
    ELSE ExecAll(Head(ls), 1) \o LineMatches(Tail(ls))

\* C18: a node built from a body with N lines that match the checklist
\* pattern has exactly N sub-items (the progress node apart), in the order of
\* their lines, the i-th with the number {parent number}.{i}; the lines that
\* do not match are ignored.
C18_OneSubItemPerLine ==
    last.op = "construct"
        => LET ms == LineMatches(SplitLines(body, <<>>))
           IN  SubItems(children) = [i \in 1..Len(ms) |-> SubItem(i, ms[i])]

\* C19: right after construction, a node whose body has N >= 1 lines matching
\* the checklist pattern, k of them checked, has progress = 100 * k / N.
C19_ProgressAfterConstruction ==
    LET ms == LineMatches(SplitLines(body, <<>>))
    IN  (last.op = "construct" /\ Len(ms) >= 1)
            => progress.num * Len(ms) = 100 * Count(ms, LAMBDA m : m.checked) * progress.den

\* C20: in every state reached by construction, toggles and recomputations
\* a node has at most one progress node among its children; when it has one,
\* it is the first child and its progress value is the parent's.
C20_OneProgressNodeFirst ==
    /\ Bars(children) <= 1
    /\ Bars(children) = 1
          => /\ children[1].type = "progressBar"
             /\ children[1].progress = progress

\* a node with two sub-items and its progress node, after a toggle
C20_Witness ==
    /\ last.op = "toggle"
    /\ Len(SubItems(children)) = 2
    /\ Bars(children) = 1
    /\ progress.num > 0

\* C21: a node built from a body with no line matching the checklist pattern
\* has no children and no progress node, and no operation on it gives it one.
C21_NoChecklistNoProgressNode ==
    (last.op # "record" /\ LineMatches(SplitLines(body, <<>>)) = <<>>)
        => (children = <<>> /\ ~hasBar /\ Bars(children) = 0)

\* C22: toggleCheckbox on a node that is no sub-item (the top-level node, the
\* progress node) completes and changes nothing: the checked flags, the
\* children and the progress of the tree it belongs to stay as they were.
C22_ToggleNonSubItemIsNoOp ==
    [][\A i \in 0..(MaxLines + 1) :
          (ToggleCheckbox(i) /\ (i = 0 \/ ~children[i].isCheckbox))
             => /\ UNCHANGED <<body, children, progress, hasBar>>
                /\ last'.op = "toggle"]_vars

\* toggleCheckbox was called on a node that is no sub-item, in a tree that
\* has sub-items and a progress node
C22_Witness ==
    /\ last.op = "toggle"
    /\ ~last.ok
    /\ hasBar
    /\ Len(SubItems(children)) > 0

\* the fetches the interval has started
TimerFetches(ts) == Count(ts, LAMBDA t : t.origin = "timer")

\* C23: once dispose() has been called, the interval starts no refresh any
\* more: no fetch of the timer begins in any later step.
C23_NoTimerFetchAfterDispose ==
    [][act = "disposed"
          => /\ TimerFetches(tasks') = TimerFetches(tasks)
             /\ ~TimerFire]_vars

\* the service is disposed at a time when the interval is due and a fetch
\* could be started
C23_Witness ==
    /\ act = "disposed"
    /\ now >= timer.next
    /\ CanSpawn

\* how many times x occurs in the sequence xs
Occurrences(x, xs) == Count(xs, LAMBDA y : y = x)

\* the collections c hold the items of fetched, each one as often as it was
\* fetched, the ones with the pull_request field in pullRequests and the
\* others in issues
IsPartitionOf(c, fetched) ==
    /\ Len(c.issues) + Len(c.pullRequests) = Len(fetched)
    /\ \A i \in 1..Len(fetched) :
          LET x == fetched[i]
          IN  /\ Occurrences(x, c.issues) + Occurrences(x, c.pullRequests)
                     = Occurrences(x, fetched)
              /\ x.pull_request => Occurrences(x, c.issues) = 0
              /\ ~x.pull_request => Occurrences(x, c.pullRequests) = 0

\* C24: a successful fetch partitions what the two listings returned by the
\* pull_request field: every fetched item is in exactly one of the stored
\* collections, in pullRequests when it has the field and in issues
\* otherwise; no item is lost and none is duplicated.
C24_FetchPartitionsItems ==
    [][\A t \in 1..Len(tasks) :
          /\ TaskListed(t, "ok")
                => IsPartitionOf(tasks'[t].data,
                                 fetchItems("open") \o fetchItems("closed"))
          /\ TaskStored(t)
                => /\ Collections(store') = tasks[t].data
                   /\ IsPartitionOf(Collections(store'),
                                    fetchItems("open") \o fetchItems("closed"))]_vars

\* a fetch of this session has stored issues and a pull request
C24_Witness ==
    /\ store.present
    /\ store.timestamp >= 0
    /\ Len(store.issues) > 1
    /\ Len(store.pullRequests) > 0
    /\ \E t \in 1..Len(tasks) : tasks[t].pc = "done"

\* invocation h, the earlier of two, is about to complete its write-back
\* while the later one, g, has already completed its own with success on
\* another sub-item: g ran between the moment h read the body and now
OverlappedBy(h, g) ==
    /\ h < g
    /\ handlers[h].pc = "update"
    /\ handlers[g].pc = "done"
    /\ \A k \in 1..MaxHandlers : k \notin {h, g} => handlers[k].pc = "idle"
    /\ last.op = "change"
    /\ last.ok
    /\ last.idx # handlers[h].item

\* C25: when the handlers of two checkbox change events on two different
\* sub-items of one parent overlap and both write-backs succeed, then after
\* both have finished the parent's body, parsed again, gives for every
\* sub-item the checked state the sub-item has in memory (so the body sent
\* last holds both changes).
C25_OverlappingChangesBothKept ==
    [][\A h, g \in 1..MaxHandlers :
          (OverlappedBy(h, g) /\ InSync(body, children) /\ HandleUpdateOk(h))
             => InSync(body', children')]_vars

\* C26: the stored entry changes only through a successful fetch, which
\* writes timestamp, issues and pullRequests in one write, or through
\* clearCache; a failed fetch, getCachedIssues, a served getCachedOrFetchIssues,
\* getFallbackItems and the passage of time leave it as it is.
C26_EntryChangesOnlyByFetchOrClear ==
    [][/\ store' # store
          => \/ \E t \in 1..Len(tasks) :
                   TaskStored(t) /\ store' = Entry(tasks[t].ts, tasks[t].data)
             \/ ClearKey /\ store' = NoEntry
       /\ (\/ \E t \in 1..Len(tasks) : TaskFallback(t) \/ TaskRepoInfo(t)
           \/ \E t \in 1..Len(tasks), o \in {"openFails", "closedFails"} :
                 TaskListed(t, o)
           \/ LoadKey
           \/ QueryKey
           \/ Tick)
          => store' = store]_vars

\* a fetch has failed and ended with the fallback while an entry is stored
C26_Witness ==
    /\ store.present
    /\ \E t \in 1..Len(tasks) : tasks[t].pc = "failed" /\ tasks[t].result = Collections(store)

\* C27: in the activation sequence no fetch gets to its listing call before
\* authentication has set the client, so a startup whose authentication then
\* succeeds reports no "GitHub API is not initialized" fetch error.
C27_NoListingBeforeAuthentication ==
    [][\A t \in 1..Len(tasks) :
          (TaskRepoInfo(t) /\ repoOk /\ tasks[t].origin \in {"load", "init"})
             => /\ octokit
                /\ tasks'[t].pc = "list"
                /\ log' = log]_vars

\* the fetch of initializeInBackground (line 301) is at pc
InitFetchAt(pc) ==
    \E t \in 1..Len(tasks) : tasks[t].origin = "init" /\ tasks[t].pc = pc

\* the fetch of initializeInBackground has stored an entry and fired
\* onDataUpdated
InitFetchStored ==
    /\ store.present
    /\ \E t \in 1..Len(tasks) :
          /\ tasks[t].origin = "init"
          /\ tasks[t].pc = "done"
          /\ tasks[t].fires >= 1
          /\ Collections(store) = tasks[t].result

\* C28: after initialize(), once authentication has succeeded and the fetch
\* of line 301 has begun on a resolvable repository, the store eventually
\* holds an entry and onDataUpdated is fired, the consumer calling nothing:
\* the fetch ends stored or, when a listing failed, with the fallback, and
\* it ends stored whenever its two listings were answered. A client that is
\* set stays set through every later step, fetches that fail included.
C28_InitializeFetchesAndStaysReady ==
    /\ (auth = "fetching" /\ repoOk) ~> (InitFetchStored \/ InitFetchAt("failed"))
    /\ InitFetchAt("key") ~> InitFetchStored
    /\ [][octokit => octokit']_vars

\* initializeInBackground has returned after its fetch stored the entry and
\* fired onDataUpdated; the client is set
C28_Witness ==
    /\ InitFetchStored
    /\ octokit
    /\ auth = "done"

====
